---- MODULE Spec2Model ----
(***************************************************************************)
(* ScanHanzi: the timed practice lesson (components/Lesson.tsx, kept here  *)
(* as src/unnamed/part_001) over the saved deck it receives from App       *)
(* (src/unnamed/part_000), and App's saving of generated cards into that   *)
(* deck.                                                                   *)
(*                                                                         *)
(* Text is a sequence of characters; a character is a TLA+ string.  ASCII  *)
(* characters stand for themselves.  Characters outside ASCII are named:   *)
(*   "a1".."a4", "e1".., "i1".., "o1".., "u1".."u4"  the precomposed       *)
(*        vowels with tone mark 1 (macron), 2 (acute), 3 (caron),          *)
(*        4 (grave), e.g. "i3" is U+01D0 and "a3" is U+01CE;               *)
(*   "u:", "u:1".."u:4"  u with diaeresis, bare and with a tone mark;      *)
(*   "U+4F60", "U+597D", "U+5988"  the hanzi with that code point.         *)
(* So <<"n","i3">> is the two-character text n + U+01D0, and               *)
(* <<"n","i","3">> the three-character text "ni3".                         *)
(***************************************************************************)
EXTENDS Naturals, Sequences, FiniteSets, TLC

VARIABLES
  generatedFlashcards, \* App: the cards of the last analysis
  autoSave,            \* App: the "Auto-save new cards" checkbox
  isLoading,           \* App: an analysis is under way
  flashcards,        \* Lesson's prop: App's savedFlashcards
  lessonState,       \* 'setup' | 'active' | 'summary'
  lessonMode,        \* 'pinyinToHanzi' | 'hanziToPinyin' | 'translationToHanzi' | 'mixed'
  shuffledDeck,
  currentCardIndex,  \* 0-based, as in the source
  currentTurnMode,
  userInput,
  feedback,          \* 'correct' | 'incorrect' | 'none'
  score,
  timeLeft,
  cardsAnswered,
  isPaused,
  incorrectAnswers

vars == <<generatedFlashcards, autoSave, isLoading, flashcards, lessonState, lessonMode, shuffledDeck, currentCardIndex,
          currentTurnMode, userInput, feedback, score, timeLeft, cardsAnswered,
          isPaused, incorrectAnswers>>

LESSON_DURATION == 300

\* Answers accepted per session before the model stops accepting more.
MaxAnswers == 2

TurnModes == {"hanziToPinyin", "pinyinToHanzi", "translationToHanzi"}

LessonModes == TurnModes \cup {"mixed"}

(***************************************************************************)
(* Text                                                                    *)
(***************************************************************************)

LowerLetters ==
  <<"a","b","c","d","e","f","g","h","i","j","k","l","m",
    "n","o","p","q","r","s","t","u","v","w","x","y","z">>

UpperLetters ==
  <<"A","B","C","D","E","F","G","H","I","J","K","L","M",
    "N","O","P","Q","R","S","T","U","V","W","X","Y","Z">>

\* [a-z] under the i flag
IsAsciiLetter(c) ==
  \E i \in 1..26 : c = LowerLetters[i] \/ c = UpperLetters[i]

\* \s
IsWhitespace(c) == c \in {" ", "\t", "\n"}

RECURSIVE trimStart(_)
trimStart(str) ==
  IF str # <<>> /\ IsWhitespace(Head(str)) THEN trimStart(Tail(str)) ELSE str

RECURSIVE trimEnd(_)
trimEnd(str) ==
  IF str # <<>> /\ IsWhitespace(str[Len(str)])
  THEN trimEnd(SubSeq(str, 1, Len(str) - 1))
  ELSE str

\* String.prototype.trim
trim(str) == trimEnd(trimStart(str))

lowerChar(c) ==
  IF \E i \in 1..26 : c = UpperLetters[i]
  THEN LowerLetters[CHOOSE i \in 1..26 : c = UpperLetters[i]]
  ELSE c

\* String.prototype.toLowerCase
toLowerCase(str) == [i \in 1..Len(str) |-> lowerChar(str[i])]

\* replace(/\s+/g, '')
removeWhitespace(str) == SelectSeq(str, LAMBDA c : ~IsWhitespace(c))

\* Faulty variant: only the case is folded.
normalizeLowerOnly(str) == toLowerCase(str)

normalize(str) == removeWhitespace(toLowerCase(trim(str)))

toneMap ==
  ("a1" :> <<"a", 1>>) @@ ("a2" :> <<"a", 2>>) @@ ("a3" :> <<"a", 3>>) @@ ("a4" :> <<"a", 4>>) @@
  ("o1" :> <<"o", 1>>) @@ ("o2" :> <<"o", 2>>) @@ ("o3" :> <<"o", 3>>) @@ ("o4" :> <<"o", 4>>) @@
  ("e1" :> <<"e", 1>>) @@ ("e2" :> <<"e", 2>>) @@ ("e3" :> <<"e", 3>>) @@ ("e4" :> <<"e", 4>>) @@
  ("i1" :> <<"i", 1>>) @@ ("i2" :> <<"i", 2>>) @@ ("i3" :> <<"i", 3>>) @@ ("i4" :> <<"i", 4>>) @@
  ("u1" :> <<"u", 1>>) @@ ("u2" :> <<"u", 2>>) @@ ("u3" :> <<"u", 3>>) @@ ("u4" :> <<"u", 4>>) @@
  ("u:1" :> <<"v", 1>>) @@ ("u:2" :> <<"v", 2>>) @@ ("u:3" :> <<"v", 3>>) @@ ("u:4" :> <<"v", 4>>) @@
  ("u:" :> <<"v", 5>>)

\* the decimal digit String(tone) appends
digitChar(n) == <<"1", "2", "3", "4", "5">>[n]

\* pinyin.split(/(?<=[a-z])(?=[a-z])/i): the text is cut at every place that
\* has an ASCII letter on its left and an ASCII letter on its right.
RECURSIVE splitBetweenLetters(_)
splitBetweenLetters(str) ==
  IF \E i \in 1..(Len(str) - 1) : IsAsciiLetter(str[i]) /\ IsAsciiLetter(str[i + 1])
  THEN LET cut == CHOOSE i \in 1..(Len(str) - 1) :
                    /\ IsAsciiLetter(str[i]) /\ IsAsciiLetter(str[i + 1])
                    /\ \A j \in 1..(i - 1) :
                         ~(IsAsciiLetter(str[j]) /\ IsAsciiLetter(str[j + 1]))
       IN  <<SubSeq(str, 1, cut)>> \o splitBetweenLetters(SubSeq(str, cut + 1, Len(str)))
  ELSE <<str>>

\* The loop over one piece of the split: <<result, tone, toneFound>> after
\* the characters of syllable from position i on.
RECURSIVE syllableLoop(_, _, _, _, _)
syllableLoop(syllable, i, result, tone, toneFound) ==
  IF i > Len(syllable) THEN <<result, tone, toneFound>>
  ELSE IF syllable[i] \in DOMAIN toneMap
       THEN syllableLoop(syllable, i + 1, Append(result, toneMap[syllable[i]][1]),
                         toneMap[syllable[i]][2], TRUE)
       ELSE syllableLoop(syllable, i + 1, Append(result, syllable[i]), tone, toneFound)

syllableToNumbers(syllable) ==
  LET r == syllableLoop(syllable, 1, <<>>, 5, FALSE)
  IN  IF r[3] THEN Append(r[1], digitChar(r[2])) ELSE r[1]

RECURSIVE joinAll(_)
joinAll(parts) ==
  IF parts = <<>> THEN <<>> ELSE Head(parts) \o joinAll(Tail(parts))

pinyinToneMarksToNumbers(pinyin) ==
  LET syllables == splitBetweenLetters(pinyin)
  IN  joinAll([k \in 1..Len(syllables) |-> syllableToNumbers(syllables[k])])

\* normalize("NFD").replace(/[\u0300-\u036f]/g, ""): a marked vowel decomposes
\* into its base letter and combining marks, and the marks are removed.
stripCombiningMarks(str) ==
  [i \in 1..Len(str) |->
     IF str[i] \in DOMAIN toneMap
     THEN (IF toneMap[str[i]][1] = "v" THEN "u" ELSE toneMap[str[i]][1])
     ELSE str[i]]

\* Faulty variant: the pronunciation without its tone marks is not among the forms.
isCorrectAnswerNoStripped(turnMode, card, input) ==
  IF turnMode = "hanziToPinyin"
  THEN normalize(input) \in
         {normalize(card.pinyin), pinyinToneMarksToNumbers(normalize(card.pinyin))}
  ELSE normalize(input) = normalize(card.word)

\* isCorrect of handleCheckAnswer
isCorrectAnswer(turnMode, card, input) ==
  IF turnMode = "hanziToPinyin"
  THEN LET correctPinyinWithMarks == normalize(card.pinyin)
           correctPinyinWithNumbers == pinyinToneMarksToNumbers(correctPinyinWithMarks)
           correctPinyinNoTones == stripCombiningMarks(correctPinyinWithMarks)
           userInputNormalized == normalize(input)
       IN  userInputNormalized \in
             {correctPinyinWithMarks, correctPinyinWithNumbers, correctPinyinNoTones}
  ELSE normalize(input) = normalize(card.word)

(***************************************************************************)
(* The decks and the texts the learner types                               *)
(***************************************************************************)

CardNiHao ==
  [word        |-> <<"U+4F60", "U+597D">>,
   pinyin      |-> <<"n", "i3", " ", "h", "a3", "o">>,
   translation |-> <<"h", "e", "l", "l", "o">>]

CardMa ==
  [word        |-> <<"U+5988">>,
   pinyin      |-> <<"m", "a1">>,
   translation |-> <<"m", "o", "m">>]

\* The saved decks App may hand to the lesson.
Decks == {<<>>, <<CardNiHao>>, <<CardNiHao, CardMa>>}

CardDe ==
  [word        |-> <<"U+7684">>,
   pinyin      |-> <<"d", "e">>,
   translation |-> <<"o", "f">>]

CardBaBa ==
  [word        |-> <<"U+7238", "U+7238">>,
   pinyin      |-> <<"b", "a4", " ", "b", "a">>,
   translation |-> <<"d", "a", "d">>]

\* The entries and the answers the answer check is tried on.
CompareEntries == {CardNiHao, CardMa, CardDe, CardBaBa}

CompareInputs ==
  {<<"n", "i", "3", "h", "a", "o", "3">>,
   <<"n", "i", "h", "a", "o", "3">>,
   <<"n", "i", "h", "a", "o">>,
   <<"n", "i", "h", "a", "o", "2">>,
   <<"n", "i3", " ", "h", "a3", "o">>,
   <<"N", "i", " ", "H", "a", "o">>,
   <<" ", "U+4F60", "U+597D", " ">>,
   <<"U+4F60", "U+597D">>,
   <<"U+4F60">>,
   <<"h", "e", "l", "l", "o">>,
   <<"m", "a", "1">>,
   <<"m", "a">>,
   <<"d", "e", "5">>,
   <<"d", "e">>,
   <<"b", "a", "4", "b", "a", "5">>,
   <<"b", "a", "4", "b", "a">>,
   <<"b", "a", "b", "4", "a">>,
   <<" ">>}

\* What the learner types into the answer box during a lesson.
TypedInputs ==
  {<<>>, <<" ">>, <<"n", "i", "h", "a", "o">>, <<"U+4F60", "U+597D">>}

(***************************************************************************)
(* shuffleArray                                                            *)
(***************************************************************************)

\* Faulty variant: the second half of the exchange is missing.
swapOverwrite(array, i, j) == [array EXCEPT ![i] = array[j]]

\* [array[i], array[j]] = [array[j], array[i]], on 1-based positions
swap(array, i, j) == [array EXCEPT ![i] = array[j], ![j] = array[i]]

\* Every array the loop can return from the state (array, currentIndex), one
\* per choice of the random indices.  randomIndex is drawn from
\* 0..currentIndex-1 before currentIndex is decremented, and the swap is of
\* the 0-based positions currentIndex-1 and randomIndex.
RECURSIVE shuffleLoop(_, _)
shuffleLoop(array, currentIndex) ==
  IF currentIndex = 0 THEN {array}
  ELSE UNION {shuffleLoop(swap(array, currentIndex, randomIndex + 1), currentIndex - 1) :
                randomIndex \in 0..(currentIndex - 1)}

shuffleArray(array) == shuffleLoop(array, Len(array))

(***************************************************************************)
(* The lesson                                                              *)
(***************************************************************************)

Init ==
  /\ generatedFlashcards = <<>>
  /\ autoSave = FALSE
  /\ isLoading = FALSE
  /\ flashcards \in Decks
  /\ lessonState = "setup"
  /\ lessonMode = "hanziToPinyin"
  /\ shuffledDeck = <<>>
  /\ currentCardIndex = 0
  /\ currentTurnMode = "hanziToPinyin"
  /\ userInput = <<>>
  /\ feedback = "none"
  /\ score = 0
  /\ timeLeft = LESSON_DURATION
  /\ cardsAnswered = 0
  /\ isPaused = FALSE
  /\ incorrectAnswers = <<>>

\* The mode buttons of the setup screen, shown when the deck is not empty.
SetLessonMode(mode) ==
  /\ lessonState = "setup"
  /\ Len(flashcards) > 0
  /\ lessonMode' = mode
  /\ UNCHANGED <<generatedFlashcards, autoSave, isLoading, flashcards, lessonState, shuffledDeck, currentCardIndex,
                 currentTurnMode, userInput, feedback, score, timeLeft,
                 cardsAnswered, isPaused, incorrectAnswers>>

\* Faulty variant: the empty deck is not refused.
handleStartLessonNoEmptyGuard ==
  /\ score' = 0
  /\ timeLeft' = LESSON_DURATION
  /\ incorrectAnswers' = <<>>
  /\ shuffledDeck' \in shuffleArray(flashcards)
  /\ currentCardIndex' = 0
  /\ cardsAnswered' = 0
  /\ isPaused' = FALSE
  /\ IF lessonMode = "mixed"
     THEN currentTurnMode' \in TurnModes
     ELSE currentTurnMode' = lessonMode
  /\ lessonState' = "active"
  /\ UNCHANGED <<generatedFlashcards, autoSave, isLoading, flashcards, lessonMode, userInput, feedback>>

\* Faulty variant: setTimeLeft(LESSON_DURATION) is missing.
handleStartLessonKeepsTime ==
  IF Len(flashcards) = 0
  THEN UNCHANGED vars
  ELSE /\ score' = 0
       /\ incorrectAnswers' = <<>>
       /\ shuffledDeck' \in shuffleArray(flashcards)
       /\ currentCardIndex' = 0
       /\ cardsAnswered' = 0
       /\ isPaused' = FALSE
       /\ IF lessonMode = "mixed"
          THEN currentTurnMode' \in TurnModes
          ELSE currentTurnMode' = lessonMode
       /\ lessonState' = "active"
       /\ UNCHANGED <<generatedFlashcards, autoSave, isLoading, flashcards, lessonMode, userInput, feedback, timeLeft>>

\* Faulty variant: setScore(0) is missing.
handleStartLessonKeepsScore ==
  IF Len(flashcards) = 0
  THEN UNCHANGED vars
  ELSE /\ timeLeft' = LESSON_DURATION
       /\ incorrectAnswers' = <<>>
       /\ shuffledDeck' \in shuffleArray(flashcards)
       /\ currentCardIndex' = 0
       /\ cardsAnswered' = 0
       /\ isPaused' = FALSE
       /\ IF lessonMode = "mixed"
          THEN currentTurnMode' \in TurnModes
          ELSE currentTurnMode' = lessonMode
       /\ lessonState' = "active"
       /\ UNCHANGED <<generatedFlashcards, autoSave, isLoading, flashcards, lessonMode, userInput, feedback, score>>

\* Faulty variant: setIsPaused(false) is missing.
handleStartLessonKeepsPause ==
  IF Len(flashcards) = 0
  THEN UNCHANGED vars
  ELSE /\ score' = 0
       /\ timeLeft' = LESSON_DURATION
       /\ incorrectAnswers' = <<>>
       /\ shuffledDeck' \in shuffleArray(flashcards)
       /\ currentCardIndex' = 0
       /\ cardsAnswered' = 0
       /\ IF lessonMode = "mixed"
          THEN currentTurnMode' \in TurnModes
          ELSE currentTurnMode' = lessonMode
       /\ lessonState' = "active"
       /\ UNCHANGED <<generatedFlashcards, autoSave, isLoading, flashcards, lessonMode, userInput, feedback, isPaused>>

handleStartLesson ==
  IF Len(flashcards) = 0
  THEN UNCHANGED vars
  ELSE /\ score' = 0
       /\ timeLeft' = LESSON_DURATION
       /\ incorrectAnswers' = <<>>
       /\ shuffledDeck' \in shuffleArray(flashcards)
       /\ currentCardIndex' = 0
       /\ cardsAnswered' = 0
       /\ isPaused' = FALSE
       /\ IF lessonMode = "mixed"
          THEN currentTurnMode' \in TurnModes
          ELSE currentTurnMode' = lessonMode
       /\ lessonState' = "active"
       /\ UNCHANGED <<generatedFlashcards, autoSave, isLoading, flashcards, lessonMode, userInput, feedback>>

\* "Start 5-Minute Lesson" on the setup screen.
StartLesson ==
  /\ lessonState = "setup"
  /\ handleStartLesson

\* "Practice Again" on the summary screen.
PracticeAgain ==
  /\ lessonState = "summary"
  /\ handleStartLesson

\* "Choose Another Mode" on the summary screen.
ChooseAnotherMode ==
  /\ lessonState = "summary"
  /\ lessonState' = "setup"
  /\ UNCHANGED <<generatedFlashcards, autoSave, isLoading, flashcards, lessonMode, shuffledDeck, currentCardIndex,
                 currentTurnMode, userInput, feedback, score, timeLeft,
                 cardsAnswered, isPaused, incorrectAnswers>>

\* Faulty variant: exit shows the summary instead of the setup screen.
ExitToSummary ==
  /\ lessonState = "active"
  /\ lessonState' = "summary"
  /\ UNCHANGED <<generatedFlashcards, autoSave, isLoading, flashcards, lessonMode, shuffledDeck, currentCardIndex,
                 currentTurnMode, userInput, feedback, score, timeLeft,
                 cardsAnswered, isPaused, incorrectAnswers>>

\* The exit button of the active screen.
Exit ==
  /\ lessonState = "active"
  /\ lessonState' = "setup"
  /\ UNCHANGED <<generatedFlashcards, autoSave, isLoading, flashcards, lessonMode, shuffledDeck, currentCardIndex,
                 currentTurnMode, userInput, feedback, score, timeLeft,
                 cardsAnswered, isPaused, incorrectAnswers>>

\* The pause button of the active screen.
TogglePause ==
  /\ lessonState = "active"
  /\ isPaused' = ~isPaused
  /\ UNCHANGED <<generatedFlashcards, autoSave, isLoading, flashcards, lessonState, lessonMode, shuffledDeck,
                 currentCardIndex, currentTurnMode, userInput, feedback, score,
                 timeLeft, cardsAnswered, incorrectAnswers>>

\* The Resume button of the overlay shown while paused.
Resume ==
  /\ lessonState = "active"
  /\ isPaused
  /\ isPaused' = FALSE
  /\ UNCHANGED <<generatedFlashcards, autoSave, isLoading, flashcards, lessonState, lessonMode, shuffledDeck,
                 currentCardIndex, currentTurnMode, userInput, feedback, score,
                 timeLeft, cardsAnswered, incorrectAnswers>>

\* Faulty variant: the effect's else branch (setLessonState('summary')) is
\* missing, so the lesson stays active at 0.
TickNeverEnds ==
  /\ lessonState = "active"
  /\ ~isPaused
  /\ timeLeft > 0
  /\ timeLeft' = timeLeft - 1
  /\ UNCHANGED <<generatedFlashcards, autoSave, isLoading, flashcards, lessonState, lessonMode, shuffledDeck,
                 currentCardIndex, currentTurnMode, userInput, feedback, score,
                 cardsAnswered, isPaused, incorrectAnswers>>

\* Faulty variant: the effect tests timeLeft >= 0, so the interval is set
\* again at 0 and the branch that ends the lesson is never taken.
TickPastZero ==
  /\ lessonState = "active"
  /\ ~isPaused
  /\ timeLeft >= 0
  /\ timeLeft' = timeLeft - 1
  /\ UNCHANGED <<generatedFlashcards, autoSave, isLoading, flashcards, lessonState, lessonMode, shuffledDeck,
                 currentCardIndex, currentTurnMode, userInput, feedback, score,
                 cardsAnswered, isPaused, incorrectAnswers>>

\* Faulty variant: the interval is kept while paused.
TickIgnoresPause ==
  /\ lessonState = "active"
  /\ timeLeft > 0
  /\ timeLeft' = timeLeft - 1
  /\ lessonState' = IF timeLeft' = 0 THEN "summary" ELSE lessonState
  /\ UNCHANGED <<generatedFlashcards, autoSave, isLoading, flashcards, lessonMode, shuffledDeck, currentCardIndex,
                 currentTurnMode, userInput, feedback, score, cardsAnswered,
                 isPaused, incorrectAnswers>>

\* The interval of the tick effect fires.  The interval exists while the
\* lesson is active, not paused and timeLeft > 0; the render that follows
\* the decrement runs the effect again, which ends the lesson at 0.
Tick ==
  /\ lessonState = "active"
  /\ ~isPaused
  /\ timeLeft > 0
  /\ timeLeft' = timeLeft - 1
  /\ lessonState' = IF timeLeft' = 0 THEN "summary" ELSE lessonState
  /\ UNCHANGED <<generatedFlashcards, autoSave, isLoading, flashcards, lessonMode, shuffledDeck, currentCardIndex,
                 currentTurnMode, userInput, feedback, score, cardsAnswered,
                 isPaused, incorrectAnswers>>

\* The effect on [feedback, shuffledDeck.length, lessonMode] keeps a timeout
\* pending exactly while feedback is shown: it depends on neither lessonState
\* nor isPaused, and the component stays mounted across the three screens.
TimerPending == feedback # "none"

\* Faulty variant: the index is advanced without the modulo.
FeedbackTimeoutNoWrap ==
  /\ TimerPending
  /\ feedback' = "none"
  /\ userInput' = <<>>
  /\ currentCardIndex' = currentCardIndex + 1
  /\ IF lessonMode = "mixed"
     THEN currentTurnMode' \in TurnModes
     ELSE currentTurnMode' = currentTurnMode
  /\ UNCHANGED <<generatedFlashcards, autoSave, isLoading, flashcards, lessonState, lessonMode, shuffledDeck, score,
                 timeLeft, cardsAnswered, isPaused, incorrectAnswers>>

\* Faulty variant: setUserInput('') is missing.
FeedbackTimeoutKeepsInput ==
  /\ TimerPending
  /\ feedback' = "none"
  /\ currentCardIndex' = (currentCardIndex + 1) % Len(shuffledDeck)
  /\ IF lessonMode = "mixed"
     THEN currentTurnMode' \in TurnModes
     ELSE currentTurnMode' = currentTurnMode
  /\ UNCHANGED <<generatedFlashcards, autoSave, isLoading, flashcards, lessonState, lessonMode, shuffledDeck, userInput,
                 score, timeLeft, cardsAnswered, isPaused, incorrectAnswers>>

\* Faulty variant: the direction is drawn again whatever the mode.
FeedbackTimeoutAlwaysRedraws ==
  /\ TimerPending
  /\ feedback' = "none"
  /\ userInput' = <<>>
  /\ currentCardIndex' = (currentCardIndex + 1) % Len(shuffledDeck)
  /\ currentTurnMode' \in TurnModes
  /\ UNCHANGED <<generatedFlashcards, autoSave, isLoading, flashcards, lessonState, lessonMode, shuffledDeck, score,
                 timeLeft, cardsAnswered, isPaused, incorrectAnswers>>

\* The 1500 ms timeout of the feedback effect fires.
FeedbackTimeout ==
  /\ TimerPending
  /\ feedback' = "none"
  /\ userInput' = <<>>
  /\ currentCardIndex' = (currentCardIndex + 1) % Len(shuffledDeck)
  /\ IF lessonMode = "mixed"
     THEN currentTurnMode' \in TurnModes
     ELSE currentTurnMode' = currentTurnMode
  /\ UNCHANGED <<generatedFlashcards, autoSave, isLoading, flashcards, lessonState, lessonMode, shuffledDeck, score,
                 timeLeft, cardsAnswered, isPaused, incorrectAnswers>>

\* disabled={feedback !== 'none' || isPaused} on the answer box and on Check
FormDisabled == feedback # "none" \/ isPaused

\* onChange of the answer box
TypeInput(text) ==
  /\ lessonState = "active"
  /\ ~FormDisabled
  /\ userInput' = text
  /\ UNCHANGED <<generatedFlashcards, autoSave, isLoading, flashcards, lessonState, lessonMode, shuffledDeck,
                 currentCardIndex, currentTurnMode, feedback, score, timeLeft,
                 cardsAnswered, isPaused, incorrectAnswers>>

\* Faulty variant: a missed card is appended without looking for its word.
recordAnswerNoDedup ==
  LET currentCard == shuffledDeck[currentCardIndex + 1]
      isCorrect == isCorrectAnswer(currentTurnMode, currentCard, userInput)
  IN  /\ cardsAnswered' = cardsAnswered + 1
      /\ IF isCorrect
         THEN /\ score' = score + 1
              /\ feedback' = "correct"
              /\ incorrectAnswers' = incorrectAnswers
         ELSE /\ score' = score
              /\ feedback' = "incorrect"
              /\ incorrectAnswers' = Append(incorrectAnswers, currentCard)
      /\ UNCHANGED <<generatedFlashcards, autoSave, isLoading, flashcards, lessonState, lessonMode, shuffledDeck,
                     currentCardIndex, currentTurnMode, userInput, timeLeft,
                     isPaused>>

\* handleCheckAnswer past its guard: the answer is compared and recorded.
recordAnswer ==
  LET currentCard == shuffledDeck[currentCardIndex + 1]
      isCorrect == isCorrectAnswer(currentTurnMode, currentCard, userInput)
  IN  /\ cardsAnswered' = cardsAnswered + 1
      /\ IF isCorrect
         THEN /\ score' = score + 1
              /\ feedback' = "correct"
              /\ incorrectAnswers' = incorrectAnswers
         ELSE /\ score' = score
              /\ feedback' = "incorrect"
              /\ incorrectAnswers' =
                   IF \E k \in 1..Len(incorrectAnswers) :
                        incorrectAnswers[k].word = currentCard.word
                   THEN incorrectAnswers
                   ELSE Append(incorrectAnswers, currentCard)
      /\ UNCHANGED <<generatedFlashcards, autoSave, isLoading, flashcards, lessonState, lessonMode, shuffledDeck,
                     currentCardIndex, currentTurnMode, userInput, timeLeft,
                     isPaused>>

\* Faulty variant: the guard no longer looks at the text.
handleCheckAnswerNoBlankGuard ==
  IF feedback # "none" THEN UNCHANGED vars ELSE recordAnswer

handleCheckAnswer ==
  IF trim(userInput) = <<>> \/ feedback # "none"
  THEN UNCHANGED vars
  ELSE recordAnswer

\* Faulty variant: neither the form nor the handler looks at feedback.
SubmitAnswerNoDebounce ==
  /\ lessonState = "active"
  /\ cardsAnswered < MaxAnswers
  /\ IF isPaused \/ trim(userInput) = <<>> THEN UNCHANGED vars ELSE recordAnswer

\* Faulty variant: the box and the button are disabled by feedback only.
SubmitAnswerWhilePaused ==
  /\ lessonState = "active"
  /\ cardsAnswered < MaxAnswers
  /\ IF feedback # "none" THEN UNCHANGED vars ELSE handleCheckAnswer

\* The learner submits the answer form (Enter in the box, or Check).  A form
\* whose box and button are disabled submits nothing.
SubmitAnswer ==
  /\ lessonState = "active"
  /\ cardsAnswered < MaxAnswers
  /\ IF FormDisabled THEN UNCHANGED vars ELSE handleCheckAnswer

Next ==
  \/ \E mode \in LessonModes : SetLessonMode(mode)
  \/ StartLesson
  \/ PracticeAgain
  \/ ChooseAnotherMode
  \/ Exit
  \/ TogglePause
  \/ Resume
  \/ Tick
  \/ FeedbackTimeout
  \/ \E text \in TypedInputs : TypeInput(text)
  \/ SubmitAnswer

Spec == Init /\ [][Next]_vars

\* The lesson over the one-card deck, with the interval of the tick effect
\* firing whenever it stays set: setInterval's callback runs after 1000 ms
\* unless a change of lessonState, timeLeft or isPaused clears the interval
\* first.
InitFair == Init /\ flashcards = <<CardNiHao>>

SpecFair == InitFair /\ [][Next]_vars /\ WF_vars(Tick)

(***************************************************************************)
(* shuffleArray on its own: an array is handed over and shuffled.           *)
(***************************************************************************)

MaxShuffleLen == 3

\* The arrays handed to shuffleArray: every array of at most MaxShuffleLen
\* cards, the empty one and those with repeated cards included.
ShuffleInputs ==
  UNION {[1..n -> {CardNiHao, CardMa, CardDe}] : n \in 0..MaxShuffleLen}

InitShuffle ==
  /\ generatedFlashcards = <<>>
  /\ autoSave = FALSE
  /\ isLoading = FALSE
  /\ flashcards \in ShuffleInputs
  /\ lessonState = "setup"
  /\ lessonMode = "hanziToPinyin"
  /\ shuffledDeck = <<>>
  /\ currentCardIndex = 0
  /\ currentTurnMode = "hanziToPinyin"
  /\ userInput = <<>>
  /\ feedback = "none"
  /\ score = 0
  /\ timeLeft = LESSON_DURATION
  /\ cardsAnswered = 0
  /\ isPaused = FALSE
  /\ incorrectAnswers = <<>>

\* shuffleArray([...flashcards]), its result kept in shuffledDeck
ApplyShuffle ==
  /\ shuffledDeck' \in shuffleArray(flashcards)
  /\ UNCHANGED <<generatedFlashcards, autoSave, isLoading, flashcards, lessonState, lessonMode, currentCardIndex,
                 currentTurnMode, userInput, feedback, score, timeLeft,
                 cardsAnswered, isPaused, incorrectAnswers>>

NextShuffle == ApplyShuffle

SpecShuffle == InitShuffle /\ [][NextShuffle]_vars

(***************************************************************************)
(* App: generated cards are saved into the deck the lesson receives.  A     *)
(* saved card is the generated card with a dateAdded stamp, which no        *)
(* comparison in App reads and which is left out here.                      *)
(***************************************************************************)

\* <Lesson flashcards={savedFlashcards} />
savedFlashcards == flashcards

MaxGenerated == 2

\* What generateFlashcards can resolve to: any list of at most MaxGenerated
\* cards, a word repeated or not.
GeneratedLists ==
  UNION {[1..n -> {CardNiHao, CardMa, CardDe}] : n \in 0..MaxGenerated}

\* The texts handed to handleAnalysis, and whether an image comes with them.
AnalysisTexts == {<<>>, <<" ">>, <<"U+4F60", "U+597D">>}

\* One run of the auto-save effect: the deck it leaves in savedFlashcards.
autoSaveEffect(saved, generated, auto) ==
  IF auto /\ Len(generated) > 0
  THEN LET savedWords == {saved[i].word : i \in 1..Len(saved)}
           newCardsToSave ==
             SelectSeq(generated, LAMBDA card : card.word \notin savedWords)
       IN  IF Len(newCardsToSave) > 0
           THEN saved \o newCardsToSave
           ELSE saved
  ELSE saved

\* The effect runs after every render that changed generatedFlashcards,
\* autoSave or savedFlashcards, so again after its own setSavedFlashcards.
autoSaveSettled(saved, generated, auto) ==
  autoSaveEffect(autoSaveEffect(saved, generated, auto), generated, auto)

\* The deck read from localStorage on mount is one an earlier run stored.
InitApp == Init

\* The auto-save checkbox
SetAutoSave(checked) ==
  /\ autoSave' = checked
  /\ flashcards' = autoSaveSettled(savedFlashcards, generatedFlashcards, checked)
  /\ UNCHANGED <<generatedFlashcards, isLoading, lessonState, lessonMode,
                 shuffledDeck, currentCardIndex, currentTurnMode, userInput,
                 feedback, score, timeLeft, cardsAnswered, isPaused,
                 incorrectAnswers>>

\* handleAnalysis up to its await: nothing to analyse is refused, otherwise
\* the generated cards are cleared and the request is under way.
handleAnalysis(text, imageFile) ==
  IF trim(text) = <<>> /\ ~imageFile
  THEN UNCHANGED vars
  ELSE /\ isLoading' = TRUE
       /\ generatedFlashcards' = <<>>
       /\ flashcards' = autoSaveSettled(savedFlashcards, <<>>, autoSave)
       /\ UNCHANGED <<autoSave, lessonState, lessonMode, shuffledDeck,
                      currentCardIndex, currentTurnMode, userInput, feedback,
                      score, timeLeft, cardsAnswered, isPaused,
                      incorrectAnswers>>

\* generateFlashcards resolves; handleAnalysis goes on after its await.
AnalysisResult(result) ==
  /\ isLoading
  /\ generatedFlashcards' = result
  /\ isLoading' = FALSE
  /\ flashcards' = autoSaveSettled(savedFlashcards, result, autoSave)
  /\ UNCHANGED <<autoSave, lessonState, lessonMode, shuffledDeck,
                 currentCardIndex, currentTurnMode, userInput, feedback, score,
                 timeLeft, cardsAnswered, isPaused, incorrectAnswers>>

\* generateFlashcards rejects: the catch and finally of handleAnalysis.
AnalysisError ==
  /\ isLoading
  /\ isLoading' = FALSE
  /\ UNCHANGED <<generatedFlashcards, autoSave, flashcards, lessonState,
                 lessonMode, shuffledDeck, currentCardIndex, currentTurnMode,
                 userInput, feedback, score, timeLeft, cardsAnswered, isPaused,
                 incorrectAnswers>>

\* The save button of one of the generated cards shown in the grid.
handleSaveCard(cardToSave) ==
  LET isAlreadySaved ==
        \E i \in 1..Len(savedFlashcards) :
          savedFlashcards[i].word = cardToSave.word
  IN  /\ flashcards' =
           IF ~isAlreadySaved
           THEN autoSaveSettled(Append(savedFlashcards, cardToSave),
                                generatedFlashcards, autoSave)
           ELSE savedFlashcards
      /\ UNCHANGED <<generatedFlashcards, autoSave, isLoading, lessonState,
                     lessonMode, shuffledDeck, currentCardIndex,
                     currentTurnMode, userInput, feedback, score, timeLeft,
                     cardsAnswered, isPaused, incorrectAnswers>>

NextApp ==
  \/ \E checked \in BOOLEAN : SetAutoSave(checked)
  \/ \E text \in AnalysisTexts, imageFile \in BOOLEAN : handleAnalysis(text, imageFile)
  \/ \E result \in GeneratedLists : AnalysisResult(result)
  \/ AnalysisError
  \/ \E k \in 1..Len(generatedFlashcards) : handleSaveCard(generatedFlashcards[k])

SpecApp == InitApp /\ [][NextApp]_vars

(***************************************************************************)
(* The answer check on its own: a lesson just started over one entry in one *)
(* direction, an answer typed, and the form submitted.                      *)
(***************************************************************************)

InitCompare ==
  /\ generatedFlashcards = <<>>
  /\ autoSave = FALSE
  /\ isLoading = FALSE
  /\ \E entry \in CompareEntries :
       /\ flashcards = <<entry>>
       /\ shuffledDeck = <<entry>>
  /\ lessonState = "active"
  /\ lessonMode \in TurnModes
  /\ currentTurnMode = lessonMode
  /\ currentCardIndex = 0
  /\ userInput \in CompareInputs
  /\ feedback = "none"
  /\ score = 0
  /\ timeLeft = LESSON_DURATION
  /\ cardsAnswered = 0
  /\ isPaused = FALSE
  /\ incorrectAnswers = <<>>

NextCompare == SubmitAnswer

SpecCompare == InitCompare /\ [][NextCompare]_vars

(***************************************************************************)
(* The lesson's timers and commands                                        *)
(***************************************************************************)

\* C1: while the lesson is active and paused with feedback shown, no step
\* that leaves it active and paused changes the current index, the direction
\* or the feedback (a pending auto-advance waits for resume).
C1_PauseSuspendsAutoAdvance ==
  [][(lessonState = "active" /\ isPaused /\ feedback # "none"
        /\ lessonState' = "active" /\ isPaused')
     => UNCHANGED <<currentCardIndex, currentTurnMode, feedback>>]_vars

\* C2: the tick that brings timeLeft to 0 ends the lesson, and on the summary
\* screen no step changes the current index or the feedback (the auto-advance
\* that was pending when time ran out never runs).
C2_ExpiryCancelsAutoAdvance ==
  [][/\ (Tick /\ timeLeft' = 0) => lessonState' = "summary"
     /\ (lessonState = "summary" /\ lessonState' = "summary")
          => UNCHANGED <<currentCardIndex, feedback>>]_vars

\* C3: no auto-advance of an earlier session fires after exit or restart: on
\* the setup screen no step changes index, direction or feedback, and in a
\* session in which no answer has been accepted yet no step does either.
C3_ExitRestartCancelAutoAdvance ==
  [][/\ (lessonState = "setup" /\ lessonState' = "setup")
          => UNCHANGED <<currentCardIndex, currentTurnMode, feedback>>
     /\ (lessonState = "active" /\ lessonState' = "active"
           /\ cardsAnswered = 0 /\ cardsAnswered' = 0)
          => UNCHANGED <<currentCardIndex, currentTurnMode, feedback>>]_vars

\* C4: starting from the setup screen with a nonempty deck, whatever the
\* mode, gives an active lesson with score 0, no card answered, nothing
\* missed, the full time budget, not paused, at index 0.
C4_StartResetsSession ==
  [][(StartLesson /\ Len(flashcards) > 0)
     => /\ lessonState' = "active"
        /\ score' = 0
        /\ cardsAnswered' = 0
        /\ incorrectAnswers' = <<>>
        /\ timeLeft' = LESSON_DURATION
        /\ isPaused' = FALSE
        /\ currentCardIndex' = 0]_vars

\* A lesson just started in mixed mode over the two-card deck.
C4_Witness ==
  /\ lessonState = "active"
  /\ lessonMode = "mixed"
  /\ Len(shuffledDeck) = 2
  /\ score = 0 /\ cardsAnswered = 0 /\ incorrectAnswers = <<>>
  /\ timeLeft = LESSON_DURATION /\ ~isPaused /\ currentCardIndex = 0

\* C9: a submission made while feedback is shown changes nothing, and any
\* step of an active lesson that raises cardsAnswered starts with no
\* feedback shown, raises it by exactly 1, raises score by at most 1 and
\* leaves feedback shown, so a second submission right after is ignored.
C9_SubmitDebounced ==
  [][/\ (SubmitAnswer /\ feedback # "none")
          => UNCHANGED <<cardsAnswered, score, incorrectAnswers, feedback>>
     /\ (lessonState = "active" /\ lessonState' = "active"
           /\ cardsAnswered' # cardsAnswered)
          => /\ feedback = "none"
             /\ cardsAnswered' = cardsAnswered + 1
             /\ score' \in {score, score + 1}
             /\ feedback' # "none"]_vars

\* An answer has just been accepted: its text is still in the box, feedback
\* is shown, and the lesson would accept another answer once it clears.
C9_Witness ==
  /\ lessonState = "active"
  /\ ~isPaused
  /\ feedback # "none"
  /\ trim(userInput) # <<>>
  /\ cardsAnswered = 1
  /\ cardsAnswered < MaxAnswers

\* C10: submitting a blank or whitespace-only text leaves score,
\* cardsAnswered, the missed list, feedback, the index and the phase as they
\* were.
C10_BlankSubmitIgnored ==
  [][(SubmitAnswer /\ trim(userInput) = <<>>)
     => UNCHANGED <<score, cardsAnswered, incorrectAnswers, feedback,
                    currentCardIndex, lessonState>>]_vars

\* A space is in the box of a running lesson that already has one correct
\* answer, and the form can be submitted.
C10_Witness ==
  /\ lessonState = "active"
  /\ ~FormDisabled
  /\ userInput = <<" ">>
  /\ cardsAnswered = 1
  /\ score = 1
  /\ cardsAnswered < MaxAnswers

\* C11: a start or a restart over an empty deck changes nothing: the phase
\* stays what it was, and score, cardsAnswered, the missed list, timeLeft,
\* the index and paused keep their values.
C11_EmptyDeckStartRejected ==
  [][((StartLesson \/ PracticeAgain) /\ Len(flashcards) = 0)
     => UNCHANGED <<lessonState, score, cardsAnswered, incorrectAnswers,
                    timeLeft, currentCardIndex, isPaused, shuffledDeck>>]_vars

\* The setup screen over an empty deck, where a start is refused.
C11_Witness ==
  /\ lessonState = "setup"
  /\ flashcards = <<>>
  /\ shuffledDeck = <<>>

\* C12: timeLeft does not change while paused, and it changes only by a tick
\* of an active, unpaused lesson, which lowers it by 1, or by the reset to
\* the budget in a start or restart.
C12_PausedTicksDoNotCount ==
  [][/\ (isPaused /\ isPaused') => timeLeft' = timeLeft
     /\ timeLeft' # timeLeft
          => \/ /\ Tick
                /\ lessonState = "active" /\ ~isPaused
                /\ timeLeft' = timeLeft - 1
             \/ /\ StartLesson \/ PracticeAgain
                /\ timeLeft' = LESSON_DURATION]_vars

\* A lesson paused after some of its time has run.
C12_Witness ==
  /\ lessonState = "active"
  /\ isPaused
  /\ timeLeft < LESSON_DURATION
  /\ timeLeft > 0

\* C13: a start sets timeLeft to 300, every step of an active lesson leaves
\* timeLeft alone or is a tick that lowers it by exactly 1, an active lesson
\* has timeLeft > 0, and the summary is entered only by the tick that takes
\* timeLeft from 1 to 0: so the summary comes with the 300th unpaused tick
\* and not before, whatever answers, auto-advances and pauses come between.
\* With the tick fair, every active lesson is eventually left (by that tick
\* or by Exit) or paused: only a lesson that keeps being paused can stay
\* active for ever.
C13_SummaryAfterBudgetTicks ==
  /\ [][/\ ((StartLesson \/ PracticeAgain) /\ Len(flashcards) > 0)
            => timeLeft' = LESSON_DURATION
        /\ (lessonState = "active" /\ lessonState' = "active")
            => /\ timeLeft' \in {timeLeft, timeLeft - 1}
               /\ timeLeft' > 0
               /\ timeLeft' # timeLeft => Tick
        /\ (lessonState # "summary" /\ lessonState' = "summary")
            => Tick /\ lessonState = "active" /\ timeLeft = 1 /\ timeLeft' = 0
        /\ (Tick /\ timeLeft = 1) => lessonState' = "summary"]_vars
  /\ (lessonState = "active" ~> (lessonState # "active" \/ isPaused))

\* C13 as stated: every active lesson eventually stops being active (it
\* reaches the summary, or it is exited).
C13_EveryActiveSessionEnds ==
  lessonState = "active" ~> lessonState # "active"

\* The summary reached when the time ran out, two answers having been
\* accepted on the way.
C13_Witness ==
  /\ lessonState = "summary"
  /\ timeLeft = 0
  /\ cardsAnswered = 2
  /\ Len(shuffledDeck) = 1

(***************************************************************************)
(* The answer check                                                        *)
(***************************************************************************)

\* The card the answer is checked against.
CurrentCard == shuffledDeck[currentCardIndex + 1]

\* The syllables of a pronunciation as it is written: its maximal runs of
\* characters other than whitespace.
RECURSIVE WrittenSyllables(_)
WrittenSyllables(pron) ==
  LET t == trimStart(pron)
  IN  IF t = <<>> THEN <<>>
      ELSE LET n == IF \E i \in 1..Len(t) : IsWhitespace(t[i])
                    THEN (CHOOSE i \in 1..Len(t) :
                            /\ IsWhitespace(t[i])
                            /\ \A j \in 1..(i - 1) : ~IsWhitespace(t[j])) - 1
                    ELSE Len(t)
           IN  <<SubSeq(t, 1, n)>> \o WrittenSyllables(SubSeq(t, n + 1, Len(t)))

HasToneMark(syllable) ==
  \E i \in 1..Len(syllable) : syllable[i] \in DOMAIN toneMap /\ toneMap[syllable[i]][2] < 5

\* One syllable in numeric-tone form: the toned vowel replaced by its base
\* vowel, then the tone digit, 5 for a syllable without a tone mark.
NumericSyllable(syllable) ==
  LET base == [i \in 1..Len(syllable) |->
                 IF syllable[i] \in DOMAIN toneMap
                 THEN toneMap[syllable[i]][1] ELSE syllable[i]]
      tone == IF HasToneMark(syllable)
              THEN toneMap[syllable[CHOOSE i \in 1..Len(syllable) :
                                      /\ syllable[i] \in DOMAIN toneMap
                                      /\ toneMap[syllable[i]][2] < 5]][2]
              ELSE 5
  IN  Append(base, digitChar(tone))

\* The numeric-tone form of a pronunciation: its syllables in numeric-tone
\* form, concatenated without spaces.
NumericToneForm(pron) ==
  LET syl == WrittenSyllables(toLowerCase(pron))
  IN  joinAll([k \in 1..Len(syl) |-> NumericSyllable(syl[k])])

AllSyllablesToned(pron) ==
  LET syl == WrittenSyllables(pron)
  IN  \A k \in 1..Len(syl) : HasToneMark(syl[k])

\* C5: a hanzi-to-pinyin answer that writes every syllable of the card's
\* pronunciation as base letters plus its tone digit, without spaces, is
\* marked correct ("ni3hao3" for n-i3 h-a3-o).
C5_NumericToneFormAccepted ==
  (/\ lessonState = "active"
   /\ currentTurnMode = "hanziToPinyin"
   /\ feedback # "none"
   /\ AllSyllablesToned(CurrentCard.pinyin)
   /\ userInput = NumericToneForm(CurrentCard.pinyin))
  => feedback = "correct"

\* C6: for a card whose pronunciation has a syllable without a tone mark, the
\* hanzi-to-pinyin answer in numeric-tone form with 5 after that syllable is
\* marked correct ("de5" for d-e).
C6_UntonedSyllableIsFive ==
  (/\ lessonState = "active"
   /\ currentTurnMode = "hanziToPinyin"
   /\ feedback # "none"
   /\ ~AllSyllablesToned(CurrentCard.pinyin)
   /\ userInput = NumericToneForm(CurrentCard.pinyin))
  => feedback = "correct"

C8_WordDirectionsExact ==
  (/\ lessonState = "active"
   /\ currentTurnMode \in {"pinyinToHanzi", "translationToHanzi"}
   /\ feedback # "none")
  => /\ feedback = "correct" <=> normalize(userInput) = normalize(CurrentCard.word)
     /\ CurrentCard = CardNiHao =>
          (feedback = "correct" <=>
             userInput \in {<<" ", "U+4F60", "U+597D", " ">>, <<"U+4F60", "U+597D">>})
     /\ userInput \in {CurrentCard.pinyin, CurrentCard.translation,
                       stripCombiningMarks(normalize(CurrentCard.pinyin))}
          => feedback = "incorrect"

\* The word typed between spaces, marked correct when the pinyin is shown.
C8_Witness ==
  /\ currentTurnMode = "pinyinToHanzi"
  /\ CurrentCard = CardNiHao
  /\ userInput = <<" ", "U+4F60", "U+597D", " ">>
  /\ feedback = "correct"
  /\ score = 1

(***************************************************************************)
(* Missed list, score, deck order and direction                            *)
(***************************************************************************)

\* How many positions of seq hold x.
Count(seq, x) == Cardinality({i \in 1..Len(seq) : seq[i] = x})

\* a and b have the same length and hold every entry the same number of
\* times.
IsPermutation(a, b) ==
  /\ Len(a) = Len(b)
  /\ \A i \in 1..Len(a) : Count(a, a[i]) = Count(b, a[i])
  /\ \A i \in 1..Len(b) : Count(a, b[i]) = Count(b, b[i])

\* No two positions of the list hold entries with the same word.
NoRepeatedWord(list) ==
  \A i, j \in 1..Len(list) : list[i].word = list[j].word => i = j

\* C14: the missed list never holds two entries with the same word; within
\* a lesson it only grows at its end (so it keeps the order of first
\* misses); an accepted wrong answer leaves the current entry in it exactly
\* once, appended if it was not there and the list untouched if it was; an
\* accepted correct answer leaves the list as it was.
C14_MissedListFirstMisses ==
  [][/\ NoRepeatedWord(incorrectAnswers')
     /\ (lessonState = "active" /\ lessonState' = "active")
          => /\ Len(incorrectAnswers) <= Len(incorrectAnswers')
             /\ SubSeq(incorrectAnswers', 1, Len(incorrectAnswers)) = incorrectAnswers
     /\ (SubmitAnswer /\ cardsAnswered' = cardsAnswered + 1)
          => IF isCorrectAnswer(currentTurnMode, CurrentCard, userInput)
             THEN incorrectAnswers' = incorrectAnswers
             ELSE /\ Count([k \in 1..Len(incorrectAnswers') |-> incorrectAnswers'[k].word],
                           CurrentCard.word) = 1
                  /\ incorrectAnswers' =
                       IF \E k \in 1..Len(incorrectAnswers) :
                            incorrectAnswers[k].word = CurrentCard.word
                       THEN incorrectAnswers
                       ELSE Append(incorrectAnswers, CurrentCard)]_vars

\* The only card of the deck has been missed twice in this lesson and is
\* listed once.
C14_Witness ==
  /\ lessonState = "active"
  /\ Len(shuffledDeck) = 1
  /\ cardsAnswered = 2
  /\ score = 0
  /\ incorrectAnswers = <<shuffledDeck[1]>>

C16_ShuffleIsPermutation ==
  [][ApplyShuffle => IsPermutation(shuffledDeck', flashcards)]_vars

\* Three different cards have been shuffled into another order.
C16_Witness ==
  /\ Len(flashcards) = 3
  /\ Len(shuffledDeck) = 3
  /\ flashcards[1] # flashcards[2]
  /\ flashcards[2] # flashcards[3]
  /\ flashcards[1] # flashcards[3]
  /\ shuffledDeck # flashcards

\* C17: in an active lesson the shuffled deck is not empty and the current
\* index is one of its 0-based positions.
C17_IndexInDeck ==
  lessonState = "active"
    => /\ Len(shuffledDeck) > 0
       /\ currentCardIndex \in 0..(Len(shuffledDeck) - 1)

\* Both cards of the deck have been answered and the index is back at 0.
C17_Witness ==
  /\ lessonState = "active"
  /\ Len(shuffledDeck) = 2
  /\ cardsAnswered = 2
  /\ feedback = "none"
  /\ currentCardIndex = 0

\* C18: 0 <= score <= cardsAnswered after every step; a submission that the
\* form and the handler let through raises cardsAnswered by exactly 1 and
\* score by 1 if the answer is correct and by 0 if not; and in an active
\* lesson nothing else changes either counter.
C18_ScoreCountsCorrectAnswers ==
  [][/\ 0 <= score' /\ score' <= cardsAnswered'
     /\ (SubmitAnswer /\ ~FormDisabled /\ trim(userInput) # <<>>)
          => /\ cardsAnswered' = cardsAnswered + 1
             /\ score' = IF isCorrectAnswer(currentTurnMode, CurrentCard, userInput)
                         THEN score + 1 ELSE score
     /\ (lessonState = "active" /\ lessonState' = "active"
           /\ (score' # score \/ cardsAnswered' # cardsAnswered))
          => SubmitAnswer /\ ~FormDisabled /\ trim(userInput) # <<>>]_vars

\* Two answers accepted, one of them correct.
C18_Witness ==
  /\ lessonState = "active"
  /\ cardsAnswered = 2
  /\ score = 1

\* C19: the auto-advance sets the index to (index + 1) mod length, clears
\* feedback and the input, and leaves the shuffled deck, score,
\* cardsAnswered, the missed list and timeLeft as they were; the shuffled
\* deck changes only in a start or restart.
C19_AutoAdvanceFrame ==
  [][/\ FeedbackTimeout
          => /\ currentCardIndex' = (currentCardIndex + 1) % Len(shuffledDeck)
             /\ feedback' = "none"
             /\ userInput' = <<>>
             /\ UNCHANGED <<shuffledDeck, score, cardsAnswered,
                            incorrectAnswers, timeLeft>>
     /\ shuffledDeck' # shuffledDeck => StartLesson \/ PracticeAgain]_vars

\* The first card of two was answered correctly and the lesson has moved on
\* to the second.
C19_Witness ==
  /\ lessonState = "active"
  /\ Len(shuffledDeck) = 2
  /\ cardsAnswered = 1
  /\ score = 1
  /\ feedback = "none"
  /\ userInput = <<>>
  /\ currentCardIndex = 1

\* C20: the direction is always one of the three concrete directions; in an
\* active lesson in a mode other than mixed it is the mode; only a start, a
\* restart or an auto-advance changes it; an auto-advance or a restart
\* changes it only in mixed mode, and a start in another mode sets it to
\* that mode.
C20_DirectionFollowsMode ==
  [][/\ currentTurnMode' \in TurnModes
     /\ (lessonState' = "active" /\ lessonMode' # "mixed")
          => currentTurnMode' = lessonMode'
     /\ currentTurnMode' # currentTurnMode
          => \/ /\ PracticeAgain \/ FeedbackTimeout
                /\ lessonMode = "mixed"
             \/ /\ StartLesson
                /\ lessonMode = "mixed" \/ currentTurnMode' = lessonMode]_vars

\* C20 as stated: a start, a restart or an auto-advance that changes the
\* direction happens in mixed mode.
C20_DirectionChangesOnlyInMixed ==
  [][((StartLesson \/ PracticeAgain \/ FeedbackTimeout)
        /\ currentTurnMode' # currentTurnMode)
     => lessonMode = "mixed"]_vars

\* A lesson in a fixed mode that is not the direction the screen opened
\* with, one answer in.
C20_Witness ==
  /\ lessonState = "active"
  /\ lessonMode = "translationToHanzi"
  /\ currentTurnMode = "translationToHanzi"
  /\ cardsAnswered = 1
  /\ feedback = "none"

(***************************************************************************)
(* Phases, time and the acceptance of answers                              *)
(***************************************************************************)

\* C21: a submission made while the lesson is paused changes neither score,
\* cardsAnswered, the missed list nor feedback.
C21_NoAnswerWhilePaused ==
  [][(SubmitAnswer /\ isPaused)
     => UNCHANGED <<score, cardsAnswered, incorrectAnswers, feedback>>]_vars

\* A paused lesson with no feedback shown and an answer typed in the box.
C21_Witness ==
  /\ lessonState = "active"
  /\ isPaused
  /\ feedback = "none"
  /\ trim(userInput) # <<>>
  /\ cardsAnswered < MaxAnswers

\* C22: the lesson opens on the setup screen, and the screen changes only
\* from setup to active by a start, from active to summary by the tick that
\* brings timeLeft to 0, from active to setup by Exit, from summary to
\* active by Practice Again and from summary to setup by Choose Another
\* Mode.
C22_PhaseTransitions ==
  /\ lessonState = "setup"
  /\ [][lessonState' # lessonState
          => \/ /\ lessonState = "setup" /\ lessonState' = "active"
                /\ StartLesson
             \/ /\ lessonState = "active" /\ lessonState' = "summary"
                /\ Tick /\ timeLeft' = 0
             \/ /\ lessonState = "active" /\ lessonState' = "setup"
                /\ Exit
             \/ /\ lessonState = "summary" /\ lessonState' = "active"
                /\ PracticeAgain
             \/ /\ lessonState = "summary" /\ lessonState' = "setup"
                /\ ChooseAnotherMode]_vars

\* Back on the setup screen by way of the summary, one answer having been
\* given in the lesson that ran out.
C22_Witness ==
  /\ lessonState = "setup"
  /\ timeLeft = 0
  /\ cardsAnswered = 1

\* C23: timeLeft stays within 0..300; a step of an active lesson never
\* raises it; a tick lowers it by exactly 1; and at 0 nothing but a start
\* or restart changes it.
C23_TimeLeftInBudget ==
  [][/\ 0 <= timeLeft' /\ timeLeft' <= LESSON_DURATION
     /\ (lessonState = "active" /\ lessonState' = "active")
          => timeLeft' <= timeLeft
     /\ Tick => timeLeft' = timeLeft - 1
     /\ (timeLeft = 0 /\ timeLeft' # timeLeft)
          => (StartLesson \/ PracticeAgain)]_vars

\* One second is left of a lesson in which both answers have been given.
C23_Witness ==
  /\ lessonState = "active"
  /\ timeLeft = 1
  /\ cardsAnswered = 2

\* C24: right after a start or a restart over a nonempty deck no feedback
\* is shown and the form is open for an answer to the card at index 0.
C24_SessionBeginsWithoutFeedback ==
  [][((StartLesson \/ PracticeAgain) /\ Len(flashcards) > 0)
     => /\ feedback' = "none"
        /\ currentCardIndex' = 0
        /\ ~FormDisabled']_vars

\* C25: in an active lesson the index is cardsAnswered modulo the length of
\* the shuffled deck once the feedback on the last answer is cleared, and
\* one less (modulo the length) while it is shown.
C25_IndexFollowsAnswers ==
  lessonState = "active"
    => currentCardIndex =
         (cardsAnswered + Len(shuffledDeck)
            - (IF feedback # "none" THEN 1 ELSE 0)) % Len(shuffledDeck)

\* C26: a submission that changes score or cardsAnswered is made in an
\* active lesson with timeLeft > 0, and no step leaves the lesson active
\* with timeLeft at 0.
C26_NoAnswerAfterExpiry ==
  [][/\ (SubmitAnswer /\ (score' # score \/ cardsAnswered' # cardsAnswered))
          => timeLeft > 0 /\ lessonState = "active"
     /\ ~(lessonState' = "active" /\ timeLeft' = 0)]_vars

\* The time ran out while the feedback on an accepted answer was shown: the
\* answer stands in the summary.
C26_Witness ==
  /\ lessonState = "summary"
  /\ timeLeft = 0
  /\ feedback = "correct"
  /\ score = 1
  /\ cardsAnswered = 1

(***************************************************************************)
(* The saved deck                                                          *)
(***************************************************************************)

\* C27: after every step of App no two cards of savedFlashcards have the
\* same word, and the deck before the step is the beginning of the deck
\* after it (nothing saved is removed or moved).
C27_SavedDeckUniqueWords ==
  [][/\ NoRepeatedWord(savedFlashcards')
     /\ Len(savedFlashcards) <= Len(savedFlashcards')
     /\ SubSeq(savedFlashcards', 1, Len(savedFlashcards)) = savedFlashcards]_vars

====
